---- MODULE Spec2Model ----
(***************************************************************************)
(* The delegating agent of multiagent-llm: a LangGraph StateGraph with the *)
(* nodes delegator, chart, rag and aggregator, run by runQuery.            *)
(*                                                                         *)
(* Texts are TLA+ strings; a character is a string of length one.  The     *)
(* regular expressions of the keyword fallback are computed on the         *)
(* characters of the lower-cased query.                                    *)
(***************************************************************************)
EXTENDS Integers, Sequences, FiniteSets, TLC

(***************************************************************************)
(* Characters and the regular-expression pieces the fallback router uses.  *)
(* A position p in 1..Len(s)+1 is the index of the next character to       *)
(* match; each piece maps a set of positions to the positions after it.    *)
(***************************************************************************)
Ch(s, i) == SubSeq(s, i, i)

Upper == "ABCDEFGHIJKLMNOPQRSTUVWXYZ"

Lower == "abcdefghijklmnopqrstuvwxyz"

(* the upper-case letters, each with its lower-case letter *)
LowerOf == [ c \in { Ch(Upper, k) : k \in 1..Len(Upper) } |->
               Ch(Lower, CHOOSE k \in 1..Len(Upper) : Ch(Upper, k) = c) ]

LowerCh(c) == IF c \in DOMAIN LowerOf THEN LowerOf[c] ELSE c

RECURSIVE toLowerCase(_)
toLowerCase(s) ==
    IF s = "" THEN "" ELSE LowerCh(Head(s)) \o toLowerCase(Tail(s))

Digits == "0123456789"

(* the digits, each with its value *)
DigitOf == [ c \in { Ch(Digits, k) : k \in 1..Len(Digits) } |->
               (CHOOSE k \in 1..Len(Digits) : Ch(Digits, k) = c) - 1 ]

IsDigit(c) == c \in DOMAIN DigitOf

(* \s of the regular expressions, on the characters the queries use. *)
IsSpace(c) == c \in {" ", "\t", "\n"}

(* "." matches every character but a line terminator. *)
IsDot(c) == c # "\n"

IsOp(c) == c \in {"+", "-", "*", "/"}

Positions(s) == 1..(Len(s) + 1)

MatchAt(s, p, w) == p + Len(w) - 1 <= Len(s) /\ SubSeq(s, p, p + Len(w) - 1) = w

Lit(s, w, P) == { p + Len(w) : p \in { q \in P : MatchAt(s, q, w) } }

Alt(s, W, P) == UNION { Lit(s, w, P) : w \in W }

(* the positions reachable from P over n or more characters, none of them at a
   position of Stop *)
Run(s, P, n, Stop) ==
    { q \in Positions(s) : \E p \in P : q >= p + n /\ \A k \in Stop : k < p \/ k >= q }

(* \s+ for n = 1, \s* for n = 0 *)
RunSpace(s, P, n) ==
    IF P = {} THEN {} ELSE Run(s, P, n, { k \in 1..Len(s) : ~IsSpace(Ch(s, k)) })

(* .* *)
RunDot(s, P) ==
    IF P = {} THEN {} ELSE Run(s, P, 0, { k \in 1..Len(s) : ~IsDot(Ch(s, k)) })

(* \d+ *)
RunDigit(s, P) ==
    IF P = {} THEN {} ELSE Run(s, P, 1, { k \in 1..Len(s) : ~IsDigit(Ch(s, k)) })

(* [\+\-\*\/] *)
RunOp(s, P) == { p + 1 : p \in { q \in P : q <= Len(s) /\ IsOp(Ch(s, q)) } }

(* /chart|graph|visuali[sz]e|plot|bar|line|pie|doughnut|show\s+me\s+a\s+(chart|graph)/ *)
chartKeywords(s) ==
    LET P == Positions(s)
        words == Alt(s, {"chart", "graph", "visualise", "visualize", "plot", "bar",
                         "line", "pie", "doughnut"}, P)
        show == Alt(s, {"chart", "graph"},
                    RunSpace(s, Lit(s, "a",
                        RunSpace(s, Lit(s, "me",
                            RunSpace(s, Lit(s, "show", P), 1)), 1)), 1))
    IN  (words \cup show) # {}

(* /(\d+)\s*[\+\-\*\/]\s*(\d+)/ : the positions after a match begun in P *)
MathEnds(s, P) == RunDigit(s, RunSpace(s, RunOp(s, RunSpace(s, RunDigit(s, P), 0)), 0))

mathPattern(s) == MathEnds(s, Positions(s)) # {}

(* /(what\s+(is|are|was|were)|how\s+(do|does|did)|tell\s+me\s+about)\s+.*(system|...|cost)/ *)
ragKeywords(s) ==
    LET P == Positions(s)
        what == Alt(s, {"is", "are", "was", "were"}, RunSpace(s, Lit(s, "what", P), 1))
        how == Alt(s, {"do", "does", "did"}, RunSpace(s, Lit(s, "how", P), 1))
        tell == Lit(s, "about", RunSpace(s, Lit(s, "me", RunSpace(s, Lit(s, "tell", P), 1)), 1))
        lead == what \cup how \cup tell
    IN  Alt(s, {"system", "requirement", "document", "policy", "authentication",
                "safety", "concern", "driver", "cost"},
            RunDot(s, RunSpace(s, lead, 1))) # {}

(* /mentioned\s+in|from\s+the\s+document|in\s+the\s+documentation/ *)
documentKeywords(s) ==
    LET P == Positions(s)
    IN  (Lit(s, "in", RunSpace(s, Lit(s, "mentioned", P), 1))
         \cup Lit(s, "document", RunSpace(s, Lit(s, "the", RunSpace(s, Lit(s, "from", P), 1)), 1))
         \cup Lit(s, "documentation", RunSpace(s, Lit(s, "the", RunSpace(s, Lit(s, "in", P), 1)), 1)))
        # {}

(* /and\s+explain|explain\s+the/ *)
explainPattern(s) ==
    LET P == Positions(s)
    IN  (Lit(s, "explain", RunSpace(s, Lit(s, "and", P), 1))
         \cup Lit(s, "the", RunSpace(s, Lit(s, "explain", P), 1))) # {}

(***************************************************************************)
(* query.match(mathPattern): the leftmost match, its two groups and the    *)
(* operator the code reads back from the matched text.                     *)
(***************************************************************************)
SetMax(S) == CHOOSE m \in S : \A n \in S : n <= m

SetMin(S) == CHOOSE m \in S : \A n \in S : m <= n

(* [0]: the matched text; [1], [2]: the groups.  \d+ and \s* are greedy. *)
mathMatch(s) ==
    LET i == SetMin({ p \in Positions(s) : MathEnds(s, {p}) # {} })
        e1 == SetMax(RunDigit(s, {i}))
        o == SetMax(RunSpace(s, {e1}, 0))
        b == SetMax(RunSpace(s, {o + 1}, 0))
        e2 == SetMax(RunDigit(s, {b}))
    IN  << SubSeq(s, i, e2 - 1), SubSeq(s, i, e1 - 1), SubSeq(s, b, e2 - 1) >>

(* mathMatch[0].match(/[\+\-\*\/]/)?.[0] *)
firstOperator(m0) == Ch(m0, SetMin({ k \in 1..Len(m0) : IsOp(Ch(m0, k)) }))

(* parseFloat of a string of decimal digits *)
RECURSIVE parseFloat(_)
parseFloat(d) ==
    IF d = "" THEN 0
    ELSE 10 * parseFloat(SubSeq(d, 1, Len(d) - 1)) + DigitOf[Ch(d, Len(d))]

(* The arithmetic of the switch, on non-negative integers: the result as a *)
(* fraction <<numerator, denominator>>; a zero denominator is a division   *)
(* by zero.                                                                *)
switchOperator(operator, num1, num2) ==
    CASE operator = "+" -> << num1 + num2, 1 >>
      [] operator = "-" -> << num1 - num2, 1 >>
      [] operator = "*" -> << num1 * num2, 1 >>
      [] operator = "/" -> << num1, num2 >>
      [] OTHER -> << 0, 1 >>

(* the most fraction digits a quotient is written out with *)
FracDigits == 6

(* the digits of rem/den after the decimal point, "~" when there are more than n *)
RECURSIVE fraction(_, _, _)
fraction(rem, den, n) ==
    IF rem = 0 THEN ""
    ELSE IF n = 0 THEN "~"
    ELSE LET rest == fraction((rem * 10) % den, den, n - 1)
         IN  IF rest = "~" THEN "~" ELSE ToString((rem * 10) \div den) \o rest

(* `${result}` : Number.prototype.toString of the IEEE-754 result.  A      *)
(* quotient whose decimal expansion has no more than FracDigits digits is  *)
(* written exactly; the digits of any other quotient are not computed and  *)
(* the text names the quotient.                                            *)
numberToString(r) ==
    LET num == r[1]
        den == r[2]
    IN  IF den = 0 THEN (IF num = 0 THEN "NaN" ELSE "Infinity")
        ELSE IF num % den = 0 THEN ToString(num \div den)
        ELSE LET f == fraction(num % den, den, FracDigits)
             IN  IF f = "~" THEN "double(" \o ToString(num) \o "/" \o ToString(den) \o ")"
                 ELSE ToString(num \div den) \o "." \o f

(***************************************************************************)
(* The keyword fallback of delegatingNode (the catch block): the update    *)
(* the node returns for the lower-cased query.                             *)
(***************************************************************************)
(* mutant of fallbackNeedsRAG: the arithmetic pattern does not veto retrieval *)
fallbackNeedsRAGNoVeto(query) ==
    ragKeywords(query) \/ documentKeywords(query) \/ explainPattern(query)

fallbackNeedsRAG(query) ==
    (ragKeywords(query) \/ documentKeywords(query) \/ explainPattern(query))
    /\ ~mathPattern(query)

(* mutant of fallbackDirectAnswer: the answer is computed whenever the pattern matches *)
fallbackDirectAnswerAlways(query, needsChartV, needsRAGV) ==
    IF mathPattern(query)
    THEN LET m == mathMatch(query)
             result == switchOperator(firstOperator(m[1]), parseFloat(m[2]), parseFloat(m[3]))
         IN  "The answer is " \o numberToString(result) \o "."
    ELSE ""

fallbackDirectAnswer(query, needsChartV, needsRAGV) ==
    IF mathPattern(query) /\ ~needsChartV /\ ~needsRAGV
    THEN LET m == mathMatch(query)
             result == switchOperator(firstOperator(m[1]), parseFloat(m[2]), parseFloat(m[3]))
         IN  "The answer is " \o numberToString(result) \o "."
    ELSE ""

(* mutant of keywordFallback: an arithmetic query is never a chart query *)
keywordFallbackMathFirst(query) ==
    LET c == chartKeywords(query) /\ ~mathPattern(query)
        r == fallbackNeedsRAG(query)
    IN  [needsChart |-> c, needsRAG |-> r, finalAnswer |-> fallbackDirectAnswer(query, c, r)]

keywordFallback(query) ==
    LET c == chartKeywords(query)
        r == fallbackNeedsRAG(query)
    IN  [needsChart |-> c, needsRAG |-> r, finalAnswer |-> fallbackDirectAnswer(query, c, r)]

(***************************************************************************)
(* The document store: seedData, by tenant, and what a tenant-scoped       *)
(* search or listing with a limit can return from it.                      *)
(***************************************************************************)
seedData ==
    << [tenant |-> "company_a", fileId |-> "tech_doc_001",
        answer |-> "The system requires Node.js 18+, 4GB RAM minimum, and Docker installed. PostgreSQL 14+ is needed for the database.",
        pageNumber |-> <<"3", "4">>],
       [tenant |-> "company_a", fileId |-> "tech_doc_001",
        answer |-> "Authentication uses JWT tokens with OAuth2.0 integration. Tokens expire after 24 hours and refresh tokens are valid for 30 days.",
        pageNumber |-> <<"12", "13", "14">>],
       [tenant |-> "company_b", fileId |-> "financial_report_q3",
        answer |-> "Q3 2024 revenue reached $4.2 million, representing a 23% increase year-over-year driven by enterprise subscription growth.",
        pageNumber |-> <<"7">>],
       [tenant |-> "company_b", fileId |-> "financial_report_q3",
        answer |-> "Primary costs include cloud infrastructure (35%), personnel (45%), and marketing (20%). R&D investment increased by 15% this quarter.",
        pageNumber |-> <<"15", "16">>],
       [tenant |-> "research_team", fileId |-> "ai_safety_paper_v2",
        answer |-> "The paper identifies three critical concerns: alignment issues with human values, potential for unintended behaviors at scale, and challenges in interpretability of large models.",
        pageNumber |-> <<"2", "3", "8">>] >>

(* const { query, tenant, topK = 3 } = input *)
topK == 3

(* the most records one search or listing returns in the model *)
MaxHits == 2

Min2(a, b) == IF a <= b THEN a ELSE b

(* the objects of one tenant, without the tenant property *)
TenantObjects(t) ==
    { [fileId |-> seedData[i].fileId, answer |-> seedData[i].answer,
       pageNumber |-> seedData[i].pageNumber] :
        i \in { j \in 1..Len(seedData) : seedData[j].tenant = t } }

(* .withTenant(tenant).withLimit(limit): any ranking of at most limit objects of the tenant *)
TenantResults(t, limit) ==
    UNION { { h \in [1..n -> TenantObjects(t)] : \A i, j \in 1..n : i # j => h[i] # h[j] } :
            n \in 0..Min2(limit, MaxHits) }

(***************************************************************************)
(* queryRAG, lines 75-106: references and the combined answer.             *)
(***************************************************************************)
(* the order of Array.prototype.sort() without a comparator: by code unit
   (the printable ASCII characters but the double quote, the backslash and the backquote) *)
CodeUnits == " !#$%&'()*+,-./0123456789:;<=>?@ABCDEFGHIJKLMNOPQRSTUVWXYZ[]^_abcdefghijklmnopqrstuvwxyz{|}~"

CodeOf(c) == CHOOSE k \in 1..Len(CodeUnits) : Ch(CodeUnits, k) = c

RECURSIVE StrLess(_, _)
StrLess(a, b) ==
    IF b = "" THEN FALSE
    ELSE IF a = "" THEN TRUE
    ELSE IF Head(a) = Head(b) THEN StrLess(Tail(a), Tail(b))
    ELSE CodeOf(Head(a)) < CodeOf(Head(b))

RECURSIVE sortStrings(_)
sortStrings(S) ==
    IF S = {} THEN << >>
    ELSE LET m == CHOOSE a \in S : \A b \in S \ {a} : StrLess(a, b)
         IN  << m >> \o sortStrings(S \ {m})

RECURSIVE join(_, _)
join(seq, sep) ==
    IF seq = << >> THEN ""
    ELSE IF Len(seq) = 1 THEN seq[1]
    ELSE seq[1] \o sep \o join(Tail(seq), sep)

(* the keys of fileIdToIndex / referencesMap in insertion order *)
RECURSIVE fileIds(_)
fileIds(objects) ==
    IF objects = << >> THEN << >>
    ELSE LET before == fileIds(SubSeq(objects, 1, Len(objects) - 1))
             f == objects[Len(objects)].fileId
         IN  IF \E i \in 1..Len(before) : before[i] = f THEN before ELSE Append(before, f)

fileIdToIndex(objects, f) ==
    CHOOSE i \in 1..Len(fileIds(objects)) : fileIds(objects)[i] = f

(* mutant of referencesOf: the pages are sorted as numbers are, the shorter label first *)
RECURSIVE sortShorterFirst(_)
sortShorterFirst(S) ==
    IF S = {} THEN << >>
    ELSE LET m == CHOOSE a \in S : \A b \in S \ {a} :
                      Len(a) < Len(b) \/ (Len(a) = Len(b) /\ StrLess(a, b))
         IN  << m >> \o sortShorterFirst(S \ {m})

referencesShorterFirst(objects) ==
    [ i \in 1..Len(fileIds(objects)) |->
        [fileId |-> fileIds(objects)[i],
         pages |-> sortShorterFirst(UNION { { objects[k].pageNumber[n] : n \in 1..Len(objects[k].pageNumber) } :
                                        k \in { j \in 1..Len(objects) : objects[j].fileId = fileIds(objects)[i] } })] ]

referencesOf(objects) ==
    [ i \in 1..Len(fileIds(objects)) |->
        [fileId |-> fileIds(objects)[i],
         pages |-> sortStrings(UNION { { objects[k].pageNumber[n] : n \in 1..Len(objects[k].pageNumber) } :
                                        k \in { j \in 1..Len(objects) : objects[j].fileId = fileIds(objects)[i] } })] ]

(* mutant of combinedAnswer: a passage is numbered by the position of its hit *)
RECURSIVE combinedAnswerByHit(_, _)
combinedAnswerByHit(objects, n) ==
    IF n = 0 THEN ""
    ELSE combinedAnswerByHit(objects, n - 1)
         \o ToString(n) \o "- Page "
         \o join(objects[n].pageNumber, ", ") \o ": " \o objects[n].answer \o "\n\n"

RECURSIVE combinedAnswer(_, _)
combinedAnswer(objects, n) ==
    IF n = 0 THEN ""
    ELSE combinedAnswer(objects, n - 1)
         \o ToString(fileIdToIndex(objects, objects[n].fileId)) \o "- Page "
         \o join(objects[n].pageNumber, ", ") \o ": " \o objects[n].answer \o "\n\n"

RECURSIVE trimEnd(_)
trimEnd(s) ==
    IF s # "" /\ IsSpace(Ch(s, Len(s))) THEN trimEnd(SubSeq(s, 1, Len(s) - 1)) ELSE s

RECURSIVE trimStart(_)
trimStart(s) == IF s # "" /\ IsSpace(Head(s)) THEN trimStart(Tail(s)) ELSE s

trim(s) == trimStart(trimEnd(s))

(* mutant of NoInformation: no object is answered as a failure is *)
NoInformationAsError ==
    [answer |-> "An error occurred while retrieving information.",
     references |-> << >>, rawData |-> << >>]

NoInformation ==
    [answer |-> "I couldn't find any relevant information in the documents.",
     references |-> << >>, rawData |-> << >>]

RetrievalError ==
    [answer |-> "An error occurred while retrieving information.",
     references |-> << >>, rawData |-> << >>]

(* the RAGAgentOutput built from the objects a search or listing returned *)
ragOutput(objects) ==
    IF Len(objects) = 0 THEN NoInformation
    ELSE [answer |-> trim(combinedAnswer(objects, Len(objects))),
          references |-> referencesOf(objects),
          rawData |-> objects]

(***************************************************************************)
(* The collaborators' answers.                                             *)
(***************************************************************************)
(* a field of the object JSON.parse returns, by its typeof *)
JsonFields == { [t |-> "boolean", v |-> TRUE], [t |-> "boolean", v |-> FALSE],
                [t |-> "undefined"], [t |-> "string", v |-> "true"] }

JsonAnswers == { [t |-> "null"], [t |-> "string", v |-> ""], [t |-> "string", v |-> "Paris"] }

(* routingLLM.invoke: rejected (error, timeout, quota), or a content that  *)
(* JSON.parse refuses, or parses to null, or parses to an object.  The     *)
(* removal of the markdown fence precedes the parse and is part of it.     *)
ClassifierResponses ==
    { [kind |-> "rejected"], [kind |-> "unparsable"], [kind |-> "null"] }
    \cup { [kind |-> "object", needsChart |-> c, needsRAG |-> r, directAnswer |-> d] :
           c \in JsonFields, r \in JsonFields, d \in JsonAnswers }

(* sharedLLM.invoke: rejected, or a content, which may be empty *)
GenerationResponses ==
    { [kind |-> "rejected"], [kind |-> "content", text |-> ""],
      [kind |-> "content", text |-> "Here is what I found for your question."] }

(***************************************************************************)
(* delegatingNode, lines 286-298: the primary path.                        *)
(***************************************************************************)
(* typeof decision.needsChart === 'boolean' && typeof decision.needsRAG === 'boolean';
   reading a property of null throws *)
validDecision(response) ==
    /\ response.kind = "object"
    /\ response.needsChart.t = "boolean"
    /\ response.needsRAG.t = "boolean"

(* decision.directAnswer || "" *)
orEmpty(d) == IF d.t = "string" THEN d.v ELSE ""

(* mutant of primaryDecision: needsRAG is not copied from the response *)
primaryDecisionNoRAG(response) ==
    [needsChart |-> response.needsChart.v, needsRAG |-> FALSE,
     finalAnswer |-> orEmpty(response.directAnswer)]

(* the try block's return, for a response that passes the validation *)
primaryDecision(response) ==
    [needsChart |-> response.needsChart.v, needsRAG |-> response.needsRAG.v,
     finalAnswer |-> orEmpty(response.directAnswer)]

(* error.message of what the try block throws for any other response *)
routingError(response) ==
    CASE response.kind = "rejected" -> "classifier call rejected"
      [] response.kind = "unparsable" -> "SyntaxError"
      [] response.kind = "null" -> "TypeError"
      [] OTHER -> "Invalid decision structure from LLM"

(***************************************************************************)
(* chartToolNode and ChartJSTool.                                          *)
(***************************************************************************)
contains(s, w) == Lit(s, w, Positions(s)) # {}

(* mutant of chartTypeOf: pie is looked for before line *)
chartTypePieFirst(query) ==
    IF contains(query, "pie") THEN "pie"
    ELSE IF contains(query, "line") THEN "line"
    ELSE IF contains(query, "doughnut") THEN "doughnut"
    ELSE "bar"

chartTypeOf(query) ==
    IF contains(query, "line") THEN "line"
    ELSE IF contains(query, "pie") THEN "pie"
    ELSE IF contains(query, "doughnut") THEN "doughnut"
    ELSE "bar"

(* JSON.parse(resultStr): the ChartJSToolOutput; chartConfig carries the type and the title *)
chartOutput(chartType, description) ==
    [type |-> chartType, description |-> description,
     chartConfig |-> [type |-> chartType, title |-> description]]

(***************************************************************************)
(* aggregatorNode.                                                         *)
(***************************************************************************)
Undefined == [undefined |-> TRUE]

contextualPrompt(query, rag, chart) ==
    "You are a helpful assistant. Based on the following information, answer the user's query: '"
    \o query \o "'\n\n"
    \o (IF rag # Undefined THEN "Document Information:\n" \o rag.answer \o "\n\n" ELSE "")
    \o (IF chart # Undefined
        THEN "I have also generated a " \o chart.type \o " chart for '" \o chart.description \o "'.\n\n"
        ELSE "")

SynthesisApology ==
    "I'm sorry, I encountered an error while synthesizing your answer. However, I have gathered the requested data."

(* mutant of aggregatorAnswer: a failed generation leaves the answer empty *)
aggregatorAnswerOrEmpty(response) ==
    IF response.kind = "content" THEN response.text ELSE ""

aggregatorAnswer(response) ==
    IF response.kind = "content" THEN response.text ELSE SynthesisApology

(***************************************************************************)
(* The graph: nodes, edges and the run of one query.                       *)
(***************************************************************************)
Nodes == {"delegator", "chart", "rag", "aggregator"}

(* the order of addNode, in which the writes of one step are applied *)
NodeOrder == << "delegator", "chart", "rag", "aggregator" >>

(* the queries of the runs *)
Queries ==
    { "Create a bar chart showing quarterly revenue from Q1 to Q4",
      "What are the system requirements mentioned in the documentation?",
      "Show me a chart of Q3 revenue and explain the growth drivers",
      "What is 25 + 37?",
      "What is the capital of France?",
      "Plot 7 / 2 as a pie",
      "" }

(* the tenants of the runs; "" is the absent tenant *)
Tenants == { "", "company_a", "company_b" }

VARIABLES
    userQuery, tenant, needsChart, needsRAG, chartResult, ragResult, finalAnswer, allData,
    run, active, task, writes,
    route, log, stream,
    calls, requests,
    setup

channels == << userQuery, tenant, needsChart, needsRAG, chartResult, ragResult, finalAnswer, allData >>

control == << run, active, task, writes >>

history == << route, log, stream >>

(* several invocations of queryRAG at once, and the requests the store has received *)
concurrent == << calls, requests >>

vars == << channels, control, history, concurrent, setup >>

NoWrites == [k \in {} |-> TRUE]

(* setupWeaviate is not running *)
NoSetup == [pc |-> "idle"]

(* mutant of Snapshot: a state with a final answer is emitted without its payload *)
SnapshotAnswerOnly(fa, ad) == [finalAnswer |-> fa, allData |-> IF fa # "" THEN << >> ELSE ad]

(* what runQuery reads of an emitted state *)
Snapshot(fa, ad) == [finalAnswer |-> fa, allData |-> ad]

(* runQuery's initialState, and the first step: START -> delegator *)
InitQuery(Q, T) ==
    /\ userQuery \in Q
    /\ tenant \in T
    /\ needsChart = FALSE
    /\ needsRAG = FALSE
    /\ chartResult = Undefined
    /\ ragResult = Undefined
    /\ finalAnswer = ""
    /\ allData = << >>
    /\ run = "Running"
    /\ active = {"delegator"}
    /\ task = [n \in Nodes |-> "idle"]
    /\ writes = [n \in Nodes |-> NoWrites]
    /\ route = "none"
    /\ log = << >>
    /\ stream = << Snapshot("", << >>) >>
    /\ calls = << >>
    /\ requests = << >>
    /\ setup = NoSetup

Init == InitQuery(Queries, Tenants)

Ready(n, status) == run = "Running" /\ n \in active /\ task[n] = status

Finish(n, update) ==
    /\ task' = [task EXCEPT ![n] = "done"]
    /\ writes' = [writes EXCEPT ![n] = update]

(***************************************************************************)
(* Node 1: delegatingNode.                                                 *)
(***************************************************************************)
(* the node builds the prompt and awaits routingLLM.invoke *)
delegatorStart ==
    /\ Ready("delegator", "idle")
    /\ task' = [task EXCEPT !["delegator"] = "classify"]
    /\ log' = log \o << <<"start", "delegator">>, <<"call", "routingLLM">> >>
    /\ UNCHANGED << setup, concurrent, channels, run, active, writes, route, stream >>

(* `${flag}` of a boolean *)
boolText(flag) == IF flag THEN "true" ELSE "false"

(* console.log of the routing: the marker, Chart, RAG and Direct (!!directAnswer) *)
routingLine(marker, decision) ==
    << marker, boolText(decision.needsChart), boolText(decision.needsRAG),
       boolText(decision.finalAnswer # "") >>

(* the classifier's response passes the validation: the try block logs the
   fields of the parsed decision and returns *)
delegatorReturn ==
    /\ Ready("delegator", "classify")
    /\ \E response \in { r \in ClassifierResponses : validDecision(r) } :
        /\ Finish("delegator", primaryDecision(response))
        /\ log' = log \o << << "LLM Routing", boolText(response.needsChart.v),
                               boolText(response.needsRAG.v),
                               boolText(orEmpty(response.directAnswer) # "") >>,
                            <<"end", "delegator">> >>
    /\ route' = "LLM Routing"
    /\ UNCHANGED << setup, concurrent, channels, run, active, stream >>

(* mutant of delegatorCatch: the catch block throws the error again *)
delegatorRethrow ==
    /\ Ready("delegator", "classify")
    /\ task' = [task EXCEPT !["delegator"] = "failed"]
    /\ log' = Append(log, <<"throw", "delegator">>)
    /\ route' = "Keyword Fallback"
    /\ UNCHANGED << setup, concurrent, channels, run, active, writes, stream >>

(* mutant of delegatorCatch: the catch block calls the classifier once more *)
delegatorRetry ==
    /\ Ready("delegator", "classify")
    /\ Len(log) < 4
    /\ log' = log \o << <<"warn", "SyntaxError">>, <<"call", "routingLLM">> >>
    /\ UNCHANGED << setup, concurrent, channels, control, route, stream >>

(* the call is rejected, the parse throws or the validation throws: the catch
   block warns with the message and returns the keyword fallback *)
delegatorCatch ==
    /\ Ready("delegator", "classify")
    /\ LET decision == keywordFallback(toLowerCase(userQuery))
       IN  /\ Finish("delegator", decision)
           /\ \E message \in { routingError(r) : r \in { r \in ClassifierResponses : ~validDecision(r) } } :
                log' = log \o << <<"warn", message>>, routingLine("Keyword Fallback", decision),
                                 <<"end", "delegator">> >>
    /\ route' = "Keyword Fallback"
    /\ UNCHANGED << setup, concurrent, channels, run, active, stream >>

(***************************************************************************)
(* Node 2: chartToolNode.  The await of chartTool.invoke is not inside a   *)
(* try block: a rejection leaves the node by an exception.                 *)
(***************************************************************************)
chartStart ==
    /\ Ready("chart", "idle")
    /\ IF ~needsChart
       THEN /\ Finish("chart", NoWrites)
            /\ log' = log \o << <<"start", "chart">>, <<"end", "chart">> >>
       ELSE /\ task' = [task EXCEPT !["chart"] = "invoke"]
            /\ log' = log \o << <<"start", "chart">>,
                                <<"call", "chartjs_generator", chartTypeOf(toLowerCase(userQuery)), userQuery>> >>
            /\ UNCHANGED writes
    /\ UNCHANGED << setup, concurrent, channels, run, active, route, stream >>

chartReturn ==
    /\ Ready("chart", "invoke")
    /\ LET result == chartOutput(chartTypeOf(toLowerCase(userQuery)), userQuery)
       IN  /\ Finish("chart", [chartResult |-> result, allData |-> << result >>])
           /\ log' = Append(log, <<"end", "chart">>)
    /\ UNCHANGED << setup, concurrent, channels, run, active, route, stream >>

chartThrow ==
    /\ Ready("chart", "invoke")
    /\ task' = [task EXCEPT !["chart"] = "failed"]
    /\ log' = Append(log, <<"throw", "chart">>)
    /\ UNCHANGED << setup, concurrent, channels, run, active, writes, route, stream >>

(***************************************************************************)
(* Node 3: ragAgentNode and queryRAG.                                      *)
(***************************************************************************)
(* state.tenant || "company_a" *)
ragTenant == IF tenant = "" THEN "company_a" ELSE tenant

(* mutant of ragUpdate: the references are spread into the payload list, one
   entry per reference *)
ragUpdateSpread(output) == [ragResult |-> output, allData |-> output.references]

(* what ragAgentNode returns for the output of queryRAG *)
ragUpdate(output) == [ragResult |-> output, allData |-> << output.references >>]

(* console.error("Error in RAG agent:", error) *)
RagAgentError == <<"error", "Error in RAG agent:">>

ragStart ==
    /\ Ready("rag", "idle")
    /\ IF ~needsRAG
       THEN /\ Finish("rag", NoWrites)
            /\ log' = log \o << <<"start", "rag">>, <<"end", "rag">> >>
       ELSE IF ragTenant = ""
       THEN /\ Finish("rag", ragUpdate(RetrievalError))
            /\ log' = log \o << <<"start", "rag">>, RagAgentError, <<"end", "rag">> >>
       ELSE /\ task' = [task EXCEPT !["rag"] = "embed"]
            /\ log' = log \o << <<"start", "rag">>, <<"call", "embedQuery", userQuery>> >>
            /\ UNCHANGED writes
    /\ UNCHANGED << setup, concurrent, channels, run, active, route, stream >>

(* embeddings.embedQuery resolves: the vector search is issued *)
ragEmbedded ==
    /\ Ready("rag", "embed")
    /\ task' = [task EXCEPT !["rag"] = "search"]
    /\ log' = Append(log, <<"call", "nearVector", ragTenant, ToString(topK)>>)
    /\ UNCHANGED << setup, concurrent, channels, run, active, writes, route, stream >>

(* embeddings.embedQuery rejects: the outer catch returns the error output *)
ragEmbedFailed ==
    /\ Ready("rag", "embed")
    /\ Finish("rag", ragUpdate(RetrievalError))
    /\ log' = log \o << RagAgentError, <<"end", "rag">> >>
    /\ UNCHANGED << setup, concurrent, channels, run, active, route, stream >>

ragSearched ==
    /\ Ready("rag", "search")
    /\ \E objects \in TenantResults(ragTenant, topK) :
        Finish("rag", ragUpdate(ragOutput(objects)))
    /\ log' = Append(log, <<"end", "rag">>)
    /\ UNCHANGED << setup, concurrent, channels, run, active, route, stream >>

(* the vector search rejects: the inner catch lists the tenant's objects *)
ragSearchFailed ==
    /\ Ready("rag", "search")
    /\ task' = [task EXCEPT !["rag"] = "list"]
    /\ log' = Append(log, <<"call", "getter", ragTenant, ToString(topK)>>)
    /\ UNCHANGED << setup, concurrent, channels, run, active, writes, route, stream >>

ragListed ==
    /\ Ready("rag", "list")
    /\ \E objects \in TenantResults(ragTenant, topK) :
        Finish("rag", ragUpdate(ragOutput(objects)))
    /\ log' = Append(log, <<"end", "rag">>)
    /\ UNCHANGED << setup, concurrent, channels, run, active, route, stream >>

(* mutant of ragListFailed: the rejection of the listing leaves queryRAG and the node *)
ragListRethrow ==
    /\ Ready("rag", "list")
    /\ task' = [task EXCEPT !["rag"] = "failed"]
    /\ log' = Append(log, <<"throw", "rag">>)
    /\ UNCHANGED << setup, concurrent, channels, run, active, writes, route, stream >>

ragListFailed ==
    /\ Ready("rag", "list")
    /\ Finish("rag", ragUpdate(RetrievalError))
    /\ log' = log \o << RagAgentError, <<"end", "rag">> >>
    /\ UNCHANGED << setup, concurrent, channels, run, active, route, stream >>

(***************************************************************************)
(* Node 4: aggregatorNode.                                                 *)
(***************************************************************************)
(* console.error("[Delegator] Aggregator Node Error:", error) *)
AggregatorNodeError == <<"error", "[Delegator] Aggregator Node Error:">>

(* mutant of aggregatorStart: the node returns without calling the model *)
aggregatorSkip ==
    /\ Ready("aggregator", "idle")
    /\ Finish("aggregator", NoWrites)
    /\ log' = log \o << <<"start", "aggregator">>, <<"end", "aggregator">> >>
    /\ UNCHANGED << setup, concurrent, channels, run, active, route, stream >>

aggregatorStart ==
    /\ Ready("aggregator", "idle")
    /\ IF finalAnswer # ""
       THEN /\ Finish("aggregator", NoWrites)
            /\ log' = log \o << <<"start", "aggregator">>, <<"end", "aggregator">> >>
       ELSE /\ task' = [task EXCEPT !["aggregator"] = "synthesize"]
            /\ log' = log \o << <<"start", "aggregator">>,
                                <<"call", "sharedLLM", contextualPrompt(userQuery, ragResult, chartResult)>> >>
            /\ UNCHANGED writes
    /\ UNCHANGED << setup, concurrent, channels, run, active, route, stream >>

aggregatorReturn ==
    /\ Ready("aggregator", "synthesize")
    /\ \E response \in GenerationResponses :
        /\ Finish("aggregator", [finalAnswer |-> aggregatorAnswer(response)])
        /\ log' = IF response.kind = "rejected"
                  THEN log \o << AggregatorNodeError, <<"end", "aggregator">> >>
                  ELSE Append(log, <<"end", "aggregator">>)
    /\ UNCHANGED << setup, concurrent, channels, run, active, route, stream >>

(***************************************************************************)
(* The steps of the graph: when every node of a step has returned, its     *)
(* writes are applied, the state is emitted and the edges choose the next  *)
(* step; when a node has thrown, graph.stream throws and runQuery catches. *)
(***************************************************************************)
Writers(k) == { n \in active : k \in DOMAIN writes[n] }

(* a channel without a reducer keeps the value written in the step, if any *)
lastValue(k, current) ==
    IF Writers(k) = {} THEN current ELSE writes[CHOOSE n \in Writers(k) : TRUE][k]

(* mutant of concatWrites: allData without its reducer keeps one write of the step *)
concatLastWrite(current, i) ==
    IF "rag" \in Writers("allData") THEN writes["rag"].allData
    ELSE IF "chart" \in Writers("allData") THEN writes["chart"].allData
    ELSE current

(* the reducer of allData: (x, y) => x.concat(y), over the writes in node order *)
RECURSIVE concatWrites(_, _)
concatWrites(current, i) ==
    IF i > Len(NodeOrder) THEN current
    ELSE concatWrites(IF NodeOrder[i] \in Writers("allData")
                      THEN current \o writes[NodeOrder[i]].allData
                      ELSE current, i + 1)

(* mutant of routeAfterDelegator: the flags are looked at before the direct answer *)
routeFlagsFirst(fa, nc, nr) ==
    IF nc /\ nr THEN {"chart", "rag"}
    ELSE IF nc THEN {"chart"}
    ELSE IF nr THEN {"rag"}
    ELSE IF fa # "" THEN {}
    ELSE {"aggregator"}

(* mutant of routeAfterDelegator: needsChart alone is looked at before both flags *)
routeChartFirst(fa, nc, nr) ==
    IF fa # "" THEN {}
    ELSE IF nc THEN {"chart"}
    ELSE IF nr THEN {"rag"}
    ELSE {"aggregator"}

(* mutant of routeAfterDelegator: either flag dispatches both workers *)
routeBothWhenAny(fa, nc, nr) ==
    IF fa # "" THEN {}
    ELSE IF nc \/ nr THEN {"chart", "rag"}
    ELSE {"aggregator"}

(* mutant of routeAfterDelegator: with neither flag the run ends *)
routeEndWhenNeither(fa, nc, nr) ==
    IF fa # "" THEN {}
    ELSE IF nc /\ nr THEN {"chart", "rag"}
    ELSE IF nc THEN {"chart"}
    ELSE IF nr THEN {"rag"}
    ELSE {}

(* mutant of routeAfterDelegator: a direct answer is passed on to the synthesizer *)
routeDirectToSynthesizer(fa, nc, nr) ==
    IF nc /\ nr THEN {"chart", "rag"}
    ELSE IF nc THEN {"chart"}
    ELSE IF nr THEN {"rag"}
    ELSE {"aggregator"}

(* the conditional edges of the delegator, on the state after its writes *)
routeAfterDelegator(fa, nc, nr) ==
    IF fa # "" THEN {}
    ELSE IF nc /\ nr THEN {"chart", "rag"}
    ELSE IF nc THEN {"chart"}
    ELSE IF nr THEN {"rag"}
    ELSE {"aggregator"}

(* addEdge("chart", "aggregator"), addEdge("rag", "aggregator"), addEdge("aggregator", END) *)
nextNodes(fa, nc, nr) ==
    IF "delegator" \in active THEN routeAfterDelegator(fa, nc, nr)
    ELSE IF active \cap {"chart", "rag"} # {} THEN {"aggregator"}
    ELSE {}

(* mutant of stepCommit: the step ends as soon as one of its nodes has returned *)
stepCommitEager ==
    /\ run = "Running"
    /\ \E n \in active : task[n] = "done"
    /\ needsChart' = lastValue("needsChart", needsChart)
    /\ needsRAG' = lastValue("needsRAG", needsRAG)
    /\ chartResult' = lastValue("chartResult", chartResult)
    /\ ragResult' = lastValue("ragResult", ragResult)
    /\ finalAnswer' = lastValue("finalAnswer", finalAnswer)
    /\ allData' = concatWrites(allData, 1)
    /\ active' = nextNodes(finalAnswer', needsChart', needsRAG')
    /\ run' = IF active' = {} THEN "Done" ELSE "Running"
    /\ task' = [n \in Nodes |-> "idle"]
    /\ writes' = [n \in Nodes |-> NoWrites]
    /\ stream' = Append(stream, Snapshot(finalAnswer', allData'))
    /\ UNCHANGED << setup, concurrent, userQuery, tenant, route, log >>

stepCommit ==
    /\ run = "Running"
    /\ active # {}
    /\ \A n \in active : task[n] = "done"
    /\ needsChart' = lastValue("needsChart", needsChart)
    /\ needsRAG' = lastValue("needsRAG", needsRAG)
    /\ chartResult' = lastValue("chartResult", chartResult)
    /\ ragResult' = lastValue("ragResult", ragResult)
    /\ finalAnswer' = lastValue("finalAnswer", finalAnswer)
    /\ allData' = concatWrites(allData, 1)
    /\ active' = nextNodes(finalAnswer', needsChart', needsRAG')
    /\ run' = IF active' = {} THEN "Done" ELSE "Running"
    /\ task' = [n \in Nodes |-> "idle"]
    /\ writes' = [n \in Nodes |-> NoWrites]
    /\ stream' = Append(stream, Snapshot(finalAnswer', allData'))
    /\ UNCHANGED << setup, concurrent, userQuery, tenant, route, log >>

(* a node of the step has thrown: the run ends in runQuery's catch block, and
   no state of the step is emitted *)
stepAbort ==
    /\ run = "Running"
    /\ \E n \in active : task[n] = "failed"
    /\ run' = "Aborted"
    /\ UNCHANGED << setup, concurrent, channels, active, task, writes, history >>

Next ==
    \/ delegatorStart \/ delegatorReturn \/ delegatorCatch
    \/ chartStart \/ chartReturn \/ chartThrow
    \/ ragStart \/ ragEmbedded \/ ragEmbedFailed
    \/ ragSearched \/ ragSearchFailed \/ ragListed \/ ragListFailed
    \/ aggregatorStart \/ aggregatorReturn
    \/ stepCommit \/ stepAbort

Spec == Init /\ [][Next]_vars

(***************************************************************************)
(* The router alone, on generated queries: the delegator's step and the    *)
(* choice of the next step.                                                *)
(***************************************************************************)
(* the most fragments of a generated query *)
MaxFrags == 3

Fragments == { "what is ", "cost ", "bar ", "and explain ", "12", "0", " / 8", "-" }

(* arithmetic and keyword cases next to the generated ones *)
RouterExamples ==
    { "15 + 27", "6 * 7", "3-5", "7 / 2", "1/3", "1/0", "0/0", "3.5 + 2", "1 2+3 - 4",
      "Read it online", "Tell me about\nthe policy", "VISUALISE 2*2" }

RECURSIVE concat(_)
concat(seq) == IF seq = << >> THEN "" ELSE seq[1] \o concat(Tail(seq))

GeneratedQueries == UNION { { concat(f) : f \in [1..n -> Fragments] } : n \in 0..MaxFrags }

RouterQueries == GeneratedQueries \cup RouterExamples \cup Queries

RouterInit == InitQuery(RouterQueries, {"company_a"})

RouterNext == delegatorStart \/ delegatorReturn \/ delegatorCatch \/ stepCommit

RouterSpec == RouterInit /\ [][RouterNext]_vars

(***************************************************************************)
(* The retrieval alone, over any content of the collection: the search or  *)
(* the listing returns up to topK objects of any files and page labels.    *)
(***************************************************************************)
HitFiles == { "a.pdf", "b.pdf" }

(* pageNumber: text[]; an object without the property reads as [] (obj.pageNumber || []) *)
HitPages == { << >>, << "2" >>, << "10" >>, << "2", "10" >>, << "10", "2", "2" >>, << "1", "b" >> }

Hits == [fileId : HitFiles, answer : {"A passage."}, pageNumber : HitPages]

GeneratedResults(limit) == UNION { [1..n -> Hits] : n \in 0..limit }

(* the vector search resolves with objects of the collection *)
ragFound ==
    /\ Ready("rag", "search")
    /\ \E objects \in GeneratedResults(topK) :
        Finish("rag", ragUpdate(ragOutput(objects)))
    /\ log' = Append(log, <<"end", "rag">>)
    /\ UNCHANGED << setup, concurrent, channels, run, active, route, stream >>

(* the listing after a failed vector search resolves with objects of the collection *)
ragListedFound ==
    /\ Ready("rag", "list")
    /\ \E objects \in GeneratedResults(topK) :
        Finish("rag", ragUpdate(ragOutput(objects)))
    /\ log' = Append(log, <<"end", "rag">>)
    /\ UNCHANGED << setup, concurrent, channels, run, active, route, stream >>

RetrievalInit ==
    InitQuery({"What are the system requirements mentioned in the documentation?"}, {"company_a"})

RetrievalNext ==
    \/ delegatorStart \/ delegatorCatch
    \/ ragStart \/ ragEmbedded \/ ragEmbedFailed
    \/ ragFound \/ ragSearchFailed \/ ragListedFound \/ ragListFailed
    \/ stepCommit

RetrievalSpec == RetrievalInit /\ [][RetrievalNext]_vars

(***************************************************************************)
(* The chart worker alone, on queries that name the chart types.           *)
(***************************************************************************)
ChartQueries ==
    { "Create a bar chart showing quarterly revenue from Q1 to Q4",
      "Plot the revenue trend as a line",
      "Market share as a pie",
      "A doughnut of the costs",
      "Draw a pie of the sales pipeline",
      "Pie or doughnut of the budget",
      "DOUGHNUT or LINE graph",
      "Show the Deadlines",
      "Visualize the growth",
      "" }

ChartInit == InitQuery(ChartQueries, {"company_a"})

ChartNext ==
    \/ delegatorStart \/ delegatorReturn \/ delegatorCatch
    \/ chartStart \/ chartReturn \/ chartThrow
    \/ stepCommit \/ stepAbort

ChartSpec == ChartInit /\ [][ChartNext]_vars

(***************************************************************************)
(* Several runs at once: each run's ragAgentNode calls queryRAG with the   *)
(* tenant of its own state; the client and the embeddings are shared, the  *)
(* query builders and the locals of queryRAG are the call's own.           *)
(***************************************************************************)
(* the most runs at once *)
MaxRuns == 2

Runs == 1..MaxRuns

(* mutant of scopeOf: the tenant is kept in one place for all calls, and the
   call that started last has set it *)
scopeOfShared(r) ==
    LET last == SetMax({ q \in Runs : q = r \/ calls[q].pc # "idle" })
    IN  IF calls[last].tenant = "" THEN "company_a" ELSE calls[last].tenant

(* tenant: state.tenant || "company_a", then const { query, tenant, topK = 3 } = input *)
scopeOf(r) == IF calls[r].tenant = "" THEN "company_a" ELSE calls[r].tenant

At(r, pc) == calls[r].pc = pc

Goto(r, pc) == calls' = [calls EXCEPT ![r].pc = pc]

Request(r, api) ==
    requests' = Append(requests, [run |-> r, api |-> api, tenant |-> scopeOf(r), limit |-> topK])

queryRAGStart(r) ==
    /\ At(r, "idle")
    /\ Goto(r, IF scopeOf(r) = "" THEN "failed" ELSE "embed")
    /\ UNCHANGED << setup, requests, channels, control, history >>

queryRAGEmbedded(r) ==
    /\ At(r, "embed")
    /\ Goto(r, "search")
    /\ Request(r, "nearVector")
    /\ UNCHANGED << setup, channels, control, history >>

queryRAGEmbedFailed(r) ==
    /\ At(r, "embed")
    /\ Goto(r, "failed")
    /\ UNCHANGED << setup, requests, channels, control, history >>

queryRAGSearched(r) ==
    /\ At(r, "search")
    /\ Goto(r, "returned")
    /\ UNCHANGED << setup, requests, channels, control, history >>

queryRAGSearchFailed(r) ==
    /\ At(r, "search")
    /\ Goto(r, "list")
    /\ Request(r, "getter")
    /\ UNCHANGED << setup, channels, control, history >>

queryRAGListed(r) ==
    /\ At(r, "list")
    /\ Goto(r, "returned")
    /\ UNCHANGED << setup, requests, channels, control, history >>

queryRAGListFailed(r) ==
    /\ At(r, "list")
    /\ Goto(r, "failed")
    /\ UNCHANGED << setup, requests, channels, control, history >>

ConcurrentInit ==
    /\ calls \in [Runs -> [tenant : Tenants, pc : {"idle"}]]
    /\ requests = << >>
    /\ setup = NoSetup
    /\ userQuery = "What are the system requirements mentioned in the documentation?"
    /\ tenant = ""
    /\ needsChart = FALSE
    /\ needsRAG = TRUE
    /\ chartResult = Undefined
    /\ ragResult = Undefined
    /\ finalAnswer = ""
    /\ allData = << >>
    /\ run = "Running"
    /\ active = {}
    /\ task = [n \in Nodes |-> "idle"]
    /\ writes = [n \in Nodes |-> NoWrites]
    /\ route = "none"
    /\ log = << >>
    /\ stream = << >>

ConcurrentNext ==
    \/ \E r \in Runs : queryRAGStart(r)
    \/ \E r \in Runs : queryRAGEmbedded(r)
    \/ \E r \in Runs : queryRAGEmbedFailed(r)
    \/ \E r \in Runs : queryRAGSearched(r)
    \/ \E r \in Runs : queryRAGSearchFailed(r)
    \/ \E r \in Runs : queryRAGListed(r)
    \/ \E r \in Runs : queryRAGListFailed(r)

ConcurrentSpec == ConcurrentInit /\ [][ConcurrentNext]_vars

(***************************************************************************)
(* setupWeaviate: the health-check loop, then the schema and the data      *)
(* operations; any rejection is logged and thrown again by the catch.      *)
(* setup.checks is what isWeaviateReady returned, call after call, and     *)
(* setup.ops the operations issued to the store and to the embeddings.     *)
(***************************************************************************)
(* let retries = 5 *)
Retries == 5

NotResponsive == "Weaviate service not responsive after multiple retries."

SetupAt(pc) == setup.pc = pc

SetupPart == << channels, control, history, concurrent >>

(* mutant of setupCheck: the loop's exit is not followed by the test of retries *)
setupCheckNoThrow ==
    /\ SetupAt("check")
    /\ \E ready \in BOOLEAN :
        setup' = IF ~ready /\ setup.retries > 0
                 THEN [setup EXCEPT !.checks = Append(@, ready), !.retries = @ - 1]
                 ELSE [setup EXCEPT !.checks = Append(@, ready), !.pc = "schema"]
    /\ UNCHANGED SetupPart

(* one evaluation of the while condition !(await isWeaviateReady()) && retries > 0:
   the body waits and counts down; after the loop, retries === 0 throws *)
setupCheck ==
    /\ SetupAt("check")
    /\ \E ready \in BOOLEAN :
        setup' = IF ~ready /\ setup.retries > 0
                 THEN [setup EXCEPT !.checks = Append(@, ready), !.retries = @ - 1]
                 ELSE IF setup.retries = 0
                 THEN [setup EXCEPT !.checks = Append(@, ready), !.pc = "thrown", !.error = NotResponsive]
                 ELSE [setup EXCEPT !.checks = Append(@, ready), !.pc = "schema"]
    /\ UNCHANGED SetupPart

(* client.schema.getter(): the collection exists or not *)
setupSchemaRead ==
    /\ SetupAt("schema")
    /\ \E classExists \in BOOLEAN :
        setup' = [setup EXCEPT !.ops = Append(@, "schema.getter"),
                               !.pc = IF classExists THEN "delete" ELSE "create"]
    /\ UNCHANGED SetupPart

setupDelete ==
    /\ SetupAt("delete")
    /\ setup' = [setup EXCEPT !.ops = Append(@, "schema.classDeleter"), !.pc = "create"]
    /\ UNCHANGED SetupPart

setupCreate ==
    /\ SetupAt("create")
    /\ setup' = [setup EXCEPT !.ops = Append(@, "schema.classCreator"), !.pc = "tenants"]
    /\ UNCHANGED SetupPart

setupTenants ==
    /\ SetupAt("tenants")
    /\ setup' = [setup EXCEPT !.ops = Append(@, "schema.tenantsCreator"), !.pc = "embed"]
    /\ UNCHANGED SetupPart

(* for (const data of seedData): the embedding of the question, then the insert *)
setupEmbed ==
    /\ SetupAt("embed")
    /\ setup' = [setup EXCEPT !.ops = Append(@, "embedQuery"), !.pc = "insert"]
    /\ UNCHANGED SetupPart

setupInsert ==
    /\ SetupAt("insert")
    /\ setup' = [setup EXCEPT !.ops = Append(@, "data.creator"),
                               !.inserted = @ + 1,
                               !.pc = IF setup.inserted + 1 = Len(seedData) THEN "done" ELSE "embed"]
    /\ UNCHANGED SetupPart

OperationAt ==
    [schema |-> "schema.getter", delete |-> "schema.classDeleter", create |-> "schema.classCreator",
     tenants |-> "schema.tenantsCreator", embed |-> "embedQuery", insert |-> "data.creator"]

(* an operation rejects: catch (error) { console.error(...); throw error } *)
setupOperationFailed ==
    /\ setup.pc \in DOMAIN OperationAt
    /\ setup' = [setup EXCEPT !.ops = Append(@, OperationAt[setup.pc]),
                               !.pc = "thrown", !.error = "request failed"]
    /\ UNCHANGED SetupPart

SetupInit ==
    /\ setup = [pc |-> "check", retries |-> Retries, checks |-> << >>, ops |-> << >>,
                 inserted |-> 0, error |-> ""]
    /\ calls = << >>
    /\ requests = << >>
    /\ userQuery = ""
    /\ tenant = ""
    /\ needsChart = FALSE
    /\ needsRAG = FALSE
    /\ chartResult = Undefined
    /\ ragResult = Undefined
    /\ finalAnswer = ""
    /\ allData = << >>
    /\ run = "Running"
    /\ active = {}
    /\ task = [n \in Nodes |-> "idle"]
    /\ writes = [n \in Nodes |-> NoWrites]
    /\ route = "none"
    /\ log = << >>
    /\ stream = << >>

SetupNext ==
    \/ setupCheck \/ setupSchemaRead \/ setupDelete \/ setupCreate \/ setupTenants
    \/ setupEmbed \/ setupInsert \/ setupOperationFailed

SetupSpec == SetupInit /\ [][SetupNext]_vars

(***************************************************************************)
(* What the log, the stream and the state say of a run.                    *)
(***************************************************************************)
Logged(event) == \E i \in 1..Len(log) : log[i] = event

Invoked(n) == Logged(<<"start", n>>)

Returned(n) == Logged(<<"end", n>>)

Threw(n) == Logged(<<"throw", n>>)

Warned == \E i \in 1..Len(log) : log[i][1] = "warn"

(* the delegator's step has been applied: the decision is in the state *)
Routed == Len(stream) >= 2

(* the direct answer of the routing decision: finalAnswer as the delegator's step left it *)
RouterDirectAnswer == IF Routed THEN stream[2].finalAnswer ELSE ""

Workers == {"chart", "rag"}

(***************************************************************************)
(* C1: a routing decision with a non-empty direct answer, whatever its     *)
(* flags and on either routing path, ends the run at once: no worker and   *)
(* no synthesizer is invoked, the final answer is the direct answer and    *)
(* the payload list holds no worker output.                                *)
(***************************************************************************)
C1_DirectAnswerShortCircuit ==
    (Routed /\ RouterDirectAnswer # "") =>
        /\ run = "Done"
        /\ active = {}
        /\ \A n \in {"chart", "rag", "aggregator"} : ~Invoked(n)
        /\ \A i \in 1..Len(log) : log[i][1] = "call" => log[i][2] = "routingLLM"
        /\ finalAnswer = RouterDirectAnswer
        /\ allData = << >>
        /\ chartResult = Undefined
        /\ ragResult = Undefined
        /\ Len(stream) = 2

C1_Witness ==
    /\ Routed
    /\ RouterDirectAnswer = "Paris"
    /\ needsChart
    /\ needsRAG
    /\ run = "Done"

(***************************************************************************)
(* C2: every run ends in Done with a non-empty final answer, whatever the  *)
(* collaborators do.  On finite runs: no node leaves a step by an          *)
(* exception (from such a state Done cannot be reached any more: only      *)
(* stepAbort follows), and a run that is no longer running is Done and has *)
(* a non-empty final answer.                                               *)
(***************************************************************************)
C2_EveryRunEndsDoneWithAnswer ==
    /\ \A n \in Nodes : task[n] # "failed"
    /\ run # "Running" => (run = "Done" /\ finalAnswer # "")

(***************************************************************************)
(* C3: when both workers are dispatched, the chart generator raises and    *)
(* the retrieval succeeds, the retrieval result is recorded, the           *)
(* synthesizer is invoked and the run ends Done with a non-empty answer.   *)
(***************************************************************************)
C3_ChartFailureIsolated ==
    (Invoked("chart") /\ Invoked("rag") /\ Threw("chart") /\ Returned("rag") /\ run # "Running") =>
        /\ run = "Done"
        /\ ragResult # Undefined
        /\ Invoked("aggregator")
        /\ finalAnswer # ""

(***************************************************************************)
(* C4: a decision with both flags and no direct answer dispatches both     *)
(* workers in the same step, and whichever of them returns first, the      *)
(* state the synthesizer reads holds a chart result and a retrieval        *)
(* result (the retrieval result may be the error placeholder), and the     *)
(* prompt it sends is built from both.                                     *)
(***************************************************************************)
C4_SynthesizerSeesBothResults ==
    (Routed /\ needsChart /\ needsRAG /\ RouterDirectAnswer = "") =>
        /\ (Len(stream) = 2 => active = {"chart", "rag"})
        /\ (Invoked("chart") \/ Invoked("rag")) => Len(stream) = 2 \/ (Invoked("chart") /\ Invoked("rag"))
        /\ Invoked("aggregator") =>
            /\ Returned("chart")
            /\ Returned("rag")
            /\ chartResult # Undefined
            /\ ragResult # Undefined
            /\ Logged(<<"call", "sharedLLM", contextualPrompt(userQuery, ragResult, chartResult)>>)

(* the retrieval returned before the chart, and the synthesizer has started *)
C4_Witness ==
    /\ Invoked("aggregator")
    /\ chartResult # Undefined
    /\ ragResult # Undefined
    /\ ragResult # RetrievalError
    /\ \E i, j \in 1..Len(log) : i < j /\ log[i] = <<"end", "rag">> /\ log[j] = <<"end", "chart">>

(***************************************************************************)
(* C5: in a run the router has returned before any worker starts, and      *)
(* every worker that started has returned before the synthesizer starts;   *)
(* the synthesizer is never in a step with a worker.                       *)
(***************************************************************************)
C5_RouterWorkersSynthesizerInOrder ==
    /\ \A i \in 1..Len(log) :
        log[i] \in { <<"start", "chart">>, <<"start", "rag">>, <<"start", "aggregator">> } =>
            \E j \in 1..(i - 1) : log[j] = <<"end", "delegator">>
    /\ \A i \in 1..Len(log) :
        log[i] = <<"start", "aggregator">> =>
            \A w \in Workers :
                (\E j \in 1..(i - 1) : log[j] = <<"start", w>>) =>
                    (\E k \in 1..(i - 1) : log[k] = <<"end", w>>)
    /\ "aggregator" \in active => active \cap Workers = {}
    /\ active \cap Workers # {} => "delegator" \notin active

C5_Witness ==
    /\ task["aggregator"] = "synthesize"
    /\ \E i, j \in 1..Len(log) : i < j /\ log[i] = <<"start", "rag">> /\ log[j] = <<"end", "chart">>
    /\ Returned("rag")

(***************************************************************************)
(* C6: the router never raises: for every failure of the classifier call   *)
(* (rejection, unparsable text, null, a flag missing or not boolean) the   *)
(* node returns the update of the keyword fallback and its step is         *)
(* applied; no run aborts in the router's step.                            *)
(***************************************************************************)
C6_RouterNeverRaises ==
    /\ task["delegator"] # "failed"
    /\ ~Threw("delegator")
    /\ run = "Aborted" => Routed
    /\ task["delegator"] = "classify" =>
        \A r \in ClassifierResponses :
            validDecision(r) \/ routingError(r) \in
                {"classifier call rejected", "SyntaxError", "TypeError", "Invalid decision structure from LLM"}
    /\ (Warned /\ ~Routed) =>
        /\ task["delegator"] = "done"
        /\ route = "Keyword Fallback"
        /\ writes["delegator"] = keywordFallback(toLowerCase(userQuery))
        /\ run = "Running"
        /\ active = {"delegator"}

(* the validation threw, the fallback asked for a worker and the run went on *)
C6_Witness ==
    /\ Logged(<<"warn", "Invalid decision structure from LLM">>)
    /\ Routed
    /\ route = "Keyword Fallback"
    /\ Invoked("rag")

(***************************************************************************)
(* C7 as stated: a decision with neither flag and no direct answer comes   *)
(* from the keyword fallback only.                                         *)
(***************************************************************************)
C7_AllNegativeOnlyFromFallback ==
    (Routed /\ ~needsChart /\ ~needsRAG /\ RouterDirectAnswer = "") => route = "Keyword Fallback"

(***************************************************************************)
(* C7 amended: a decision with neither flag and no direct answer comes     *)
(* from the keyword fallback, or from a validated classifier response that *)
(* itself has needsChart false, needsRAG false and a null or empty         *)
(* directAnswer; the primary path never drops a flag or a direct answer    *)
(* of the response.                                                        *)
(***************************************************************************)
C7_AllNegativeFromFallbackOrResponse ==
    (Routed /\ ~needsChart /\ ~needsRAG /\ RouterDirectAnswer = "") =>
        \/ route = "Keyword Fallback" /\ Warned
        \/ route = "LLM Routing" /\ ~Warned /\ Logged(<<"LLM Routing", "false", "false", "false">>)

C7_Witness ==
    /\ Routed
    /\ ~needsChart
    /\ ~needsRAG
    /\ RouterDirectAnswer = ""
    /\ route = "LLM Routing"
    /\ Invoked("aggregator")

(***************************************************************************)
(* The decision of the keyword fallback, once the delegator's step is      *)
(* applied, and the arithmetic the claims expect of it.                    *)
(***************************************************************************)
FallbackRouted == Len(stream) = 2 /\ route = "Keyword Fallback"

LoweredQuery == toLowerCase(userQuery)

(* a op b, as a fraction *)
Arithmetic(a, op, b) ==
    IF op = "+" THEN << a + b, 1 >>
    ELSE IF op = "-" THEN << a - b, 1 >>
    ELSE IF op = "*" THEN << a * b, 1 >>
    ELSE << a, b >>

(* the leftmost match of the arithmetic pattern: digits, spaces, an operator,
   spaces, digits; the operator is the one character between the two numbers
   that is not a space *)
MatchedArithmetic(q) ==
    LET m == mathMatch(q)
        between == SubSeq(m[1], Len(m[2]) + 1, Len(m[1]) - Len(m[3]))
        op == CHOOSE c \in {"+", "-", "*", "/"} :
                \E k \in 1..Len(between) :
                    /\ Ch(between, k) = c
                    /\ \A j \in 1..Len(between) : j # k => IsSpace(Ch(between, j))
    IN  Arithmetic(parseFloat(m[2]), op, parseFloat(m[3]))

(***************************************************************************)
(* C8: under fallback routing the direct answer is non-empty exactly when  *)
(* the arithmetic pattern matches and neither flag is set; it is then      *)
(* "The answer is {a op b}." for the matched numbers and operator, and the *)
(* run ends with no worker dispatched; otherwise it is empty.              *)
(***************************************************************************)
C8_FallbackDirectAnswer ==
    FallbackRouted =>
        /\ finalAnswer # "" <=> (mathPattern(LoweredQuery) /\ ~needsChart /\ ~needsRAG)
        /\ finalAnswer # "" =>
            /\ finalAnswer = "The answer is " \o numberToString(MatchedArithmetic(LoweredQuery)) \o "."
            /\ run = "Done"
            /\ active = {}
            /\ allData = << >>
        /\ userQuery = "What is 25 + 37?" => finalAnswer = "The answer is 62."
        /\ userQuery = "15 + 27" => finalAnswer = "The answer is 42."
        /\ userQuery = "6 * 7" => finalAnswer = "The answer is 42."
        /\ userQuery = "3-5" => finalAnswer = "The answer is -2."
        /\ userQuery = "7 / 2" => finalAnswer = "The answer is 3.5."
        /\ userQuery = "12 / 8" => finalAnswer = "The answer is 1.5."

C8_Witness ==
    /\ FallbackRouted
    /\ userQuery = "What is 25 + 37?"
    /\ finalAnswer = "The answer is 62."
    /\ run = "Done"

(***************************************************************************)
(* C9: under fallback routing needsRAG is true exactly when the query      *)
(* matches the informational-question keywords, a document-reference       *)
(* phrase or the explain phrasing, and does not match the arithmetic       *)
(* pattern; a match of the arithmetic pattern forces needsRAG false.       *)
(***************************************************************************)
C9_FallbackNeedsRAG ==
    FallbackRouted =>
        /\ needsRAG <=> /\ ragKeywords(LoweredQuery) \/ documentKeywords(LoweredQuery)
                           \/ explainPattern(LoweredQuery)
                        /\ ~mathPattern(LoweredQuery)
        /\ mathPattern(LoweredQuery) => ~needsRAG
        /\ userQuery = "What are the system requirements mentioned in the documentation?" =>
            needsRAG /\ ~needsChart
        /\ userQuery = "what is cost " => needsRAG
        /\ userQuery = "what is cost 12 / 8" => ~needsRAG

(* a query with the explain phrasing and an arithmetic match *)
C9_Witness ==
    /\ FallbackRouted
    /\ userQuery = "and explain 12 / 8"
    /\ explainPattern(LoweredQuery)
    /\ ~needsRAG
    /\ finalAnswer = "The answer is 1.5."

(***************************************************************************)
(* C10: under fallback routing needsChart is true exactly when the         *)
(* lower-cased query contains one of the visualization keywords, whether   *)
(* or not the arithmetic pattern or a retrieval keyword matches; the bar   *)
(* chart query of the test run gives needsChart true and needsRAG false.   *)
(***************************************************************************)
C10_FallbackNeedsChart ==
    FallbackRouted =>
        /\ needsChart <=> \E w \in {"chart", "graph", "visualise", "visualize", "plot", "bar",
                                    "line", "pie", "doughnut"} : contains(LoweredQuery, w)
        /\ userQuery = "Create a bar chart showing quarterly revenue from Q1 to Q4" =>
            needsChart /\ ~needsRAG
        /\ userQuery = "VISUALISE 2*2" => needsChart /\ finalAnswer = ""
        /\ userQuery = "Read it online" => needsChart
        /\ userQuery = "bar and explain 12" => needsChart /\ needsRAG

(* a query with a chart keyword and an arithmetic match *)
C10_Witness ==
    /\ FallbackRouted
    /\ userQuery = "bar 12 / 8"
    /\ mathPattern(LoweredQuery)
    /\ needsChart
    /\ finalAnswer = ""

(***************************************************************************)
(* What the retrieval worker has returned in the current step.             *)
(***************************************************************************)
RagReturned == "ragResult" \in DOMAIN writes["rag"]

RagOutput == writes["rag"].ragResult

FirstSeen(objects, f) == SetMin({ k \in 1..Len(objects) : objects[k].fileId = f })

PagesOf(objects, f) ==
    UNION { { objects[k].pageNumber[n] : n \in 1..Len(objects[k].pageNumber) } :
            k \in { j \in 1..Len(objects) : objects[j].fileId = f } }

(***************************************************************************)
(* C11: for every non-empty list of hits the references hold exactly one   *)
(* entry per distinct fileId of the hits, in the order in which the        *)
(* fileIds are first seen, and the pages of an entry are the page labels   *)
(* of the fileId over all hits, each once, in ascending order of strings   *)
(* ("10" before "2").                                                      *)
(***************************************************************************)
C11_ReferencesPerSource ==
    RagReturned /\ Len(RagOutput.rawData) > 0 =>
        LET hits == RagOutput.rawData
            refs == RagOutput.references
        IN  /\ \A k \in 1..Len(hits) :
                    Cardinality({ i \in 1..Len(refs) : refs[i].fileId = hits[k].fileId }) = 1
            /\ \A i \in 1..Len(refs) : \E k \in 1..Len(hits) : hits[k].fileId = refs[i].fileId
            /\ \A i, j \in 1..Len(refs) :
                    i < j => FirstSeen(hits, refs[i].fileId) < FirstSeen(hits, refs[j].fileId)
            /\ \A i \in 1..Len(refs) :
                    LET pages == refs[i].pages
                    IN  /\ { pages[a] : a \in 1..Len(pages) } = PagesOf(hits, refs[i].fileId)
                        /\ \A a, b \in 1..Len(pages) : a < b => StrLess(pages[a], pages[b])
                        /\ \A a, b \in 1..Len(pages) :
                                pages[a] = "10" /\ pages[b] = "2" => a < b
            /\ writes["rag"].allData = << refs >>

(* three hits of two files, the second file first seen last, and the pages
   "2" and "10" of the first file gathered from two hits *)
C11_Witness ==
    /\ RagReturned
    /\ Len(RagOutput.rawData) = 3
    /\ RagOutput.rawData[1].fileId = "b.pdf" /\ RagOutput.rawData[1].pageNumber = << "2" >>
    /\ RagOutput.rawData[2].fileId = "a.pdf"
    /\ RagOutput.rawData[3].fileId = "b.pdf" /\ RagOutput.rawData[3].pageNumber = << "10", "2", "2" >>
    /\ RagOutput.references[1] = [fileId |-> "b.pdf", pages |-> << "10", "2" >>]
    /\ Len(RagOutput.references) = 2

(***************************************************************************)
(* C12: every similarity search and every listing that a run's retrieval   *)
(* issues is scoped to the tenant of that run and to no other, the listing *)
(* after a failed search included, whatever other runs with other tenants  *)
(* do in between.                                                          *)
(***************************************************************************)
C12_RequestsScopedToOwnTenant ==
    \A i \in 1..Len(requests) :
        LET q == requests[i]
        IN  /\ q.api \in {"nearVector", "getter"}
            /\ calls[q.run].tenant # "" => q.tenant = calls[q.run].tenant
            /\ \A j \in 1..Len(requests) : requests[j].run = q.run => requests[j].tenant = q.tenant
            /\ q.api = "getter" =>
                    \E j \in 1..(i - 1) : requests[j].run = q.run /\ requests[j].api = "nearVector"

(* two runs of different tenants, their searches and listings interleaved *)
C12_Witness ==
    /\ Len(requests) = 4
    /\ calls[1].tenant = "company_a" /\ calls[2].tenant = "company_b"
    /\ requests[1] = [run |-> 1, api |-> "nearVector", tenant |-> "company_a", limit |-> topK]
    /\ requests[2] = [run |-> 2, api |-> "nearVector", tenant |-> "company_b", limit |-> topK]
    /\ requests[3] = [run |-> 2, api |-> "getter", tenant |-> "company_b", limit |-> topK]
    /\ requests[4] = [run |-> 1, api |-> "getter", tenant |-> "company_a", limit |-> topK]

(***************************************************************************)
(* The calls of the retrieval worker in the log.                           *)
(***************************************************************************)
Called(name) == \E i \in 1..Len(log) : log[i][1] = "call" /\ log[i][2] = name

(***************************************************************************)
(* C13: when retrieval is required and the run has no tenant, the          *)
(* retrieval worker fails for the missing tenant: no embedding, search or  *)
(* listing call is issued, and the result it returns is an error           *)
(* placeholder without references or raw hits.                             *)
(***************************************************************************)
C13_MissingTenantFails ==
    tenant = "" /\ needsRAG /\ Invoked("rag") =>
        /\ ~Called("embedQuery") /\ ~Called("nearVector") /\ ~Called("getter")
        /\ RagReturned =>
                RagOutput.references = << >> /\ RagOutput.rawData = << >>

(* the result of the retrieval worker: the write of its step, then the channel *)
RagResult == IF RagReturned THEN RagOutput ELSE ragResult

(***************************************************************************)
(* C14: the retrieval worker never raises.  When the embedding call fails, *)
(* or the search and then the listing fail, it returns the generic error   *)
(* answer with no references and no raw hits; when the search fails and    *)
(* the listing succeeds, it returns the result built from the listed       *)
(* objects of the tenant.                                                  *)
(***************************************************************************)
C14_RetrievalNeverRaises ==
    /\ ~Threw("rag") /\ task["rag"] # "failed"
    /\ run = "Aborted" => Threw("chart")
    /\ Returned("rag") =>
        /\ Called("embedQuery") /\ ~Called("nearVector") =>
                /\ Logged(RagAgentError)
                /\ RagResult = [answer |-> "An error occurred while retrieving information.",
                                references |-> << >>, rawData |-> << >>]
        /\ Called("getter") /\ Logged(RagAgentError) =>
                RagResult = [answer |-> "An error occurred while retrieving information.",
                             references |-> << >>, rawData |-> << >>]
        /\ Called("getter") /\ ~Logged(RagAgentError) =>
                /\ RagResult.rawData \in TenantResults(ragTenant, topK)
                /\ RagResult = ragOutput(RagResult.rawData)
                /\ RagResult.answer # "An error occurred while retrieving information."
        /\ RagReturned => writes["rag"].allData = << RagOutput.references >>

(* the search and the listing failed, and the run went on to its end *)
C14_Witness ==
    /\ Called("nearVector") /\ Called("getter") /\ Logged(RagAgentError)
    /\ run = "Done"
    /\ ragResult.answer = "An error occurred while retrieving information."
    /\ Invoked("aggregator")

(***************************************************************************)
(* C15: when the generation call of the synthesizer fails, the final       *)
(* answer is the fixed apology, the run ends Done and never aborts, and    *)
(* the chart result, the retrieval result and the payload list stay as     *)
(* the workers left them: no step at or after the failure changes them.    *)
(***************************************************************************)
C15_SynthesisFailureKeepsData ==
    [][ Logged(AggregatorNodeError)' =>
            /\ chartResult' = chartResult /\ ragResult' = ragResult /\ allData' = allData
            /\ run' # "Aborted"
            /\ run' = "Running" =>
                    /\ active' = {"aggregator"} /\ task'["aggregator"] = "done"
                    /\ writes'["aggregator"] =
                         [finalAnswer |-> "I'm sorry, I encountered an error while synthesizing your answer. However, I have gathered the requested data."]
            /\ run' = "Done" =>
                    /\ finalAnswer' = "I'm sorry, I encountered an error while synthesizing your answer. However, I have gathered the requested data."
                    /\ stream'[Len(stream')] = Snapshot(finalAnswer', allData)
      ]_vars

(* both workers returned, the generation failed and the run is over *)
C15_Witness ==
    /\ Logged(AggregatorNodeError)
    /\ run = "Done"
    /\ chartResult # Undefined /\ ragResult # Undefined /\ Len(ragResult.rawData) > 0
    /\ Len(allData) = 2
    /\ finalAnswer = SynthesisApology

(***************************************************************************)
(* C16: when a run is Done, the payload list is the chart output, if and   *)
(* only if the chart worker was invoked, followed by the list of           *)
(* references, as one entry, if and only if the retrieval worker was       *)
(* invoked: at most two entries, and nothing from the router or the        *)
(* synthesizer.                                                            *)
(***************************************************************************)
C16_PayloadIsWorkerOutputs ==
    run = "Done" =>
        LET c == IF Invoked("chart") THEN 1 ELSE 0
            r == IF Invoked("rag") THEN 1 ELSE 0
        IN  /\ Len(allData) = c + r
            /\ Len(allData) <= 2
            /\ Invoked("chart") => chartResult # Undefined /\ allData[1] = chartResult
            /\ Invoked("rag") => ragResult # Undefined /\ allData[c + 1] = ragResult.references
            /\ stream[Len(stream)].allData = allData

(* both workers and the synthesizer ran: two entries, the second a list of
   one reference *)
C16_Witness ==
    /\ run = "Done"
    /\ Invoked("chart") /\ Invoked("rag") /\ Invoked("aggregator")
    /\ Len(allData) = 2
    /\ Len(allData[2]) = 1
    /\ Len(ragResult.rawData) = 2

(***************************************************************************)
(* A run in which every collaborator call made so far has failed: the      *)
(* classifier, the chart generator, the embedding (so that no search and   *)
(* no listing is reached) and the generation.                              *)
(***************************************************************************)
TotalFailure ==
    /\ Routed => route = "Keyword Fallback"
    /\ ~Returned("chart")
    /\ ~Called("nearVector")
    /\ Returned("aggregator") => Logged(AggregatorNodeError)

(***************************************************************************)
(* C17: under total collaborator failure the run ends, whatever the query, *)
(* with the fixed apology as final answer and an empty payload list: no    *)
(* node raises, the run does not abort, and once it is over it is Done     *)
(* with the apology and no payload.                                        *)
(***************************************************************************)
C17_TotalFailureEndsWithApology ==
    TotalFailure =>
        /\ \A n \in Nodes : task[n] # "failed"
        /\ run # "Aborted"
        /\ run = "Done" =>
                /\ finalAnswer = "I'm sorry, I encountered an error while synthesizing your answer. However, I have gathered the requested data."
                /\ allData = << >>

(***************************************************************************)
(* C18: the chart generator is called only in a run whose decision has     *)
(* needsChart, and the embedding, the search and the listing only in a run *)
(* whose decision has needsRAG; with exactly one flag and no direct answer *)
(* only that worker is invoked, and the result of the other worker stays   *)
(* absent to the end of the run.                                           *)
(***************************************************************************)
C18_WorkersOnlyWhenFlagged ==
    /\ Called("chartjs_generator") => Routed /\ needsChart
    /\ Called("embedQuery") \/ Called("nearVector") \/ Called("getter") => Routed /\ needsRAG
    /\ Routed /\ RouterDirectAnswer = "" /\ needsChart /\ ~needsRAG =>
            /\ ~Invoked("rag") /\ ~Called("embedQuery")
            /\ ragResult = Undefined /\ writes["rag"] = NoWrites
            /\ Len(stream) = 2 => active = {"chart"}
    /\ Routed /\ RouterDirectAnswer = "" /\ needsRAG /\ ~needsChart =>
            /\ ~Invoked("chart") /\ ~Called("chartjs_generator")
            /\ chartResult = Undefined /\ writes["chart"] = NoWrites
            /\ Len(stream) = 2 => active = {"rag"}

(* a run of the retrieval worker alone is over, and there is no chart result *)
C18_Witness ==
    /\ run = "Done"
    /\ needsRAG /\ ~needsChart
    /\ Called("embedQuery") /\ Called("nearVector")
    /\ ragResult # Undefined /\ chartResult = Undefined
    /\ Invoked("aggregator")

(***************************************************************************)
(* How often an event is in the log.                                       *)
(***************************************************************************)
Count(event) == Cardinality({ i \in 1..Len(log) : log[i] = event })

RoutingLines ==
    { i \in 1..Len(log) : log[i][1] \in {"LLM Routing", "Keyword Fallback"} }

Warnings == { i \in 1..Len(log) : log[i][1] = "warn" }

(***************************************************************************)
(* C19: the router takes the classifier's decision exactly when the        *)
(* response parses to an object with boolean needsChart and needsRAG; for  *)
(* any other response it takes the keyword fallback and does not call the  *)
(* classifier again: one classifier call and one decision per run.         *)
(***************************************************************************)
C19_OneCallOneDecision ==
    /\ Count(<<"call", "routingLLM">>) <= 1
    /\ Count(<<"start", "delegator">>) <= 1
    /\ Cardinality(RoutingLines) <= 1
    /\ Cardinality(RoutingLines) = 1 <=> Returned("delegator")
    /\ Returned("delegator") => Count(<<"call", "routingLLM">>) = 1
    /\ \A r \in ClassifierResponses :
            validDecision(r) <=>
                r \in [kind : {"object"},
                       needsChart : { [t |-> "boolean", v |-> b] : b \in BOOLEAN },
                       needsRAG : { [t |-> "boolean", v |-> b] : b \in BOOLEAN },
                       directAnswer : JsonAnswers]
    /\ route = "LLM Routing" =>
            /\ Warnings = {}
            /\ ~Routed => \E r \in ClassifierResponses :
                              validDecision(r) /\ writes["delegator"] = primaryDecision(r)
    /\ route = "Keyword Fallback" =>
            /\ Cardinality(Warnings) = 1
            /\ \E r \in ClassifierResponses :
                    ~validDecision(r) /\ Logged(<<"warn", routingError(r)>>)
            /\ ~Routed => writes["delegator"] = keywordFallback(toLowerCase(userQuery))
    /\ route = "none" => ~Returned("delegator")

(* a response with a flag that is not boolean: the fallback decided, after
   one call, and the run is over *)
C19_Witness ==
    /\ run = "Done"
    /\ route = "Keyword Fallback"
    /\ Logged(<<"warn", "Invalid decision structure from LLM">>)
    /\ Count(<<"call", "routingLLM">>) = 1
    /\ Cardinality(RoutingLines) = 1

(***************************************************************************)
(* C20: a decision with neither flag and no direct answer, as the keyword  *)
(* fallback gives for the empty query, invokes no worker: the step after   *)
(* the router's is the synthesizer's alone, and the synthesizer reads a    *)
(* state without chart result and without retrieval result.                *)
(***************************************************************************)
C20_NeitherFlagGoesToSynthesizer ==
    /\ Routed /\ ~needsChart /\ ~needsRAG /\ RouterDirectAnswer = "" =>
            /\ ~Invoked("chart") /\ ~Invoked("rag")
            /\ chartResult = Undefined /\ ragResult = Undefined
            /\ allData = << >>
            /\ Len(stream) = 2 => run = "Running" /\ active = {"aggregator"}
            /\ Invoked("aggregator") =>
                    Logged(<<"call", "sharedLLM", contextualPrompt(userQuery, Undefined, Undefined)>>)
            /\ run # "Aborted"
    /\ Routed /\ route = "Keyword Fallback" /\ userQuery = "" =>
            ~needsChart /\ ~needsRAG /\ RouterDirectAnswer = ""

(* the empty query under the fallback: the synthesizer was invoked and no worker *)
C20_Witness ==
    /\ userQuery = ""
    /\ route = "Keyword Fallback"
    /\ Invoked("aggregator") /\ Returned("aggregator")
    /\ ~Invoked("chart") /\ ~Invoked("rag")
    /\ run = "Done"

(***************************************************************************)
(* The calls of the generation model in the log.                           *)
(***************************************************************************)
GenerationCalls == { i \in 1..Len(log) : log[i][1] = "call" /\ log[i][2] = "sharedLLM" }

(***************************************************************************)
(* C21: the generation model is called at most once in a run: never when   *)
(* the router gave a direct answer, and once when it gave none and the     *)
(* synthesizer's step was reached, which is after every dispatched worker  *)
(* has returned, with one worker or with both.                             *)
(***************************************************************************)
C21_OneGenerationCall ==
    /\ Cardinality(GenerationCalls) <= 1
    /\ RouterDirectAnswer # "" => GenerationCalls = {}
    /\ ~Routed => GenerationCalls = {}
    /\ GenerationCalls # {} =>
            /\ Invoked("aggregator")
            /\ needsChart => Returned("chart")
            /\ needsRAG => Returned("rag")
    /\ Invoked("aggregator") /\ RouterDirectAnswer = "" => Cardinality(GenerationCalls) = 1
    /\ run = "Done" /\ RouterDirectAnswer = "" => Cardinality(GenerationCalls) = 1
    /\ run = "Done" /\ RouterDirectAnswer # "" => ~Invoked("aggregator")

(* both workers fed the synthesizer, and the model was called once *)
C21_Witness ==
    /\ run = "Done"
    /\ Returned("chart") /\ Returned("rag") /\ needsChart /\ needsRAG
    /\ Cardinality(GenerationCalls) = 1

(***************************************************************************)
(* The position of an event in the log (0 when it is not there).           *)
(***************************************************************************)
IndexOf(event) ==
    IF Logged(event) THEN SetMin({ i \in 1..Len(log) : log[i] = event }) ELSE 0

(***************************************************************************)
(* C22 as stated: the two workers write disjoint fields of the state: no   *)
(* field is written by both in one run.                                    *)
(***************************************************************************)
C22_WorkersWriteDisjointFields ==
    DOMAIN writes["chart"] \cap DOMAIN writes["rag"] = {}

(***************************************************************************)
(* C22 amended: the chart worker writes chartResult and allData, the       *)
(* retrieval worker ragResult and allData; allData is the one field both   *)
(* write, and its reducer appends the two writes in the order of the       *)
(* nodes, so that the state after the step, and the terminal state, hold   *)
(* the chart entry and then the references whichever worker returned       *)
(* first.                                                                  *)
(***************************************************************************)
C22_WorkersShareOnlyPayload ==
    /\ DOMAIN writes["chart"] \subseteq {"chartResult", "allData"}
    /\ DOMAIN writes["rag"] \subseteq {"ragResult", "allData"}
    /\ DOMAIN writes["chart"] \cap DOMAIN writes["rag"] \subseteq {"allData"}
    /\ Returned("chart") /\ Returned("rag") /\ Len(stream) >= 3 =>
            /\ Len(allData) = 2
            /\ chartResult # Undefined /\ ragResult # Undefined
            /\ allData[1] = chartResult
            /\ allData[2] = ragResult.references
            /\ stream[3].allData = allData

(* the retrieval returned before the chart, both wrote allData, and the run is over *)
C22_Witness ==
    /\ run = "Done"
    /\ Returned("chart") /\ Returned("rag")
    /\ IndexOf(<<"end", "rag">>) < IndexOf(<<"end", "chart">>)
    /\ Len(allData) = 2
    /\ Len(allData[2]) = 1

(***************************************************************************)
(* The calls of the chart generator in the log: <<"call", name, kind,      *)
(* description>>.                                                          *)
(***************************************************************************)
ChartCalls == { i \in 1..Len(log) : log[i][1] = "call" /\ log[i][2] = "chartjs_generator" }

(* the chart result of the step or of the state *)
ChartResult ==
    IF "chartResult" \in DOMAIN writes["chart"] THEN writes["chart"].chartResult ELSE chartResult

(***************************************************************************)
(* C23: the chart generator is called with the kind "line" when the        *)
(* lower-cased query contains "line", else "pie" when it contains "pie",   *)
(* else "doughnut" when it contains "doughnut", else "bar", and with the   *)
(* query as it was given as description; the chart result has the kind of  *)
(* the call.                                                               *)
(***************************************************************************)
C23_ChartKindFromQuery ==
    /\ Cardinality(ChartCalls) <= 1
    /\ \A i \in ChartCalls :
            LET kind == log[i][3]
                q == LoweredQuery
            IN  /\ kind \in {"bar", "line", "pie", "doughnut"}
                /\ log[i][4] = userQuery
                /\ contains(q, "line") => kind = "line"
                /\ ~contains(q, "line") /\ contains(q, "pie") => kind = "pie"
                /\ ~contains(q, "line") /\ ~contains(q, "pie") /\ contains(q, "doughnut") =>
                        kind = "doughnut"
                /\ ~contains(q, "line") /\ ~contains(q, "pie") /\ ~contains(q, "doughnut") =>
                        kind = "bar"
                /\ userQuery = "Create a bar chart showing quarterly revenue from Q1 to Q4" => kind = "bar"
                /\ userQuery = "Draw a pie of the sales pipeline" => kind = "line"
                /\ userQuery = "Pie or doughnut of the budget" => kind = "pie"
                /\ userQuery = "DOUGHNUT or LINE graph" => kind = "line"
                /\ userQuery = "Show the Deadlines" => kind = "line"
                /\ userQuery = "A doughnut of the costs" => kind = "doughnut"
                /\ userQuery = "" => kind = "bar"
                /\ ChartResult # Undefined =>
                        /\ ChartResult.type = kind
                        /\ ChartResult.chartConfig.type = kind
                        /\ ChartResult.description = userQuery
    /\ ChartResult # Undefined => ChartCalls # {}

(* a query with "pie" and, inside another word, "line": the chart is a line chart *)
C23_Witness ==
    /\ userQuery = "Draw a pie of the sales pipeline"
    /\ run = "Running" /\ Len(stream) = 3
    /\ chartResult # Undefined
    /\ chartResult.type = "line"
    /\ Logged(<<"call", "chartjs_generator", "line", "Draw a pie of the sales pipeline">>)

(***************************************************************************)
(* The passages a list of hits should give: the rank of a fileId is the    *)
(* number of distinct fileIds first seen up to its own first hit.          *)
(***************************************************************************)
RankOf(hits, f) ==
    Cardinality({ FirstSeen(hits, hits[k].fileId) :
                    k \in { j \in 1..Len(hits) : FirstSeen(hits, hits[j].fileId) <= FirstSeen(hits, f) } })

Passage(hits, k) ==
    ToString(RankOf(hits, hits[k].fileId)) \o "- Page "
        \o join(hits[k].pageNumber, ", ") \o ": " \o hits[k].answer

(***************************************************************************)
(* C24: for a non-empty list of hits the combined answer is one passage    *)
(* per hit, in the order of the hits, separated by a blank line; a passage *)
(* is numbered by the first-seen rank of its fileId (1 for the first       *)
(* fileId, one more for each new one, the same for hits of one fileId) and *)
(* lists the page labels of its own hit in the order of the hit.           *)
(***************************************************************************)
C24_CombinedAnswerPassages ==
    RagReturned /\ Len(RagOutput.rawData) > 0 =>
        LET hits == RagOutput.rawData
        IN  /\ RagOutput.answer = join([k \in 1..Len(hits) |-> Passage(hits, k)], "\n\n")
            /\ RankOf(hits, hits[1].fileId) = 1
            /\ \A k \in 2..Len(hits) :
                    \/ \E j \in 1..(k - 1) :
                            /\ hits[j].fileId = hits[k].fileId
                            /\ RankOf(hits, hits[k].fileId) = RankOf(hits, hits[j].fileId)
                    \/ RankOf(hits, hits[k].fileId) =
                            1 + SetMax({ RankOf(hits, hits[j].fileId) : j \in 1..(k - 1) })

(* three hits of two files: the third passage has the number of the first,
   and its pages as the hit has them *)
C24_Witness ==
    /\ RagReturned
    /\ Len(RagOutput.rawData) = 3
    /\ RagOutput.answer =
         "1- Page 2: A passage.\n\n2- Page 1, b: A passage.\n\n1- Page 10, 2, 2: A passage."

(***************************************************************************)
(* C25: when the search, or the listing after a failed search, returns no  *)
(* object, the retrieval worker returns the fixed answer that nothing      *)
(* relevant was found, with no references and no raw hits; this is not the *)
(* answer of a failure; the run goes on to the synthesizer, whose prompt   *)
(* carries that answer.                                                    *)
(***************************************************************************)
C25_NoHitsAnswer ==
    Returned("rag") /\ Called("nearVector") /\ ~Logged(RagAgentError) =>
        /\ RagResult.rawData = << >> =>
                RagResult = [answer |-> "I couldn't find any relevant information in the documents.",
                             references |-> << >>, rawData |-> << >>]
        /\ RagResult.rawData # << >> =>
                RagResult.answer # "I couldn't find any relevant information in the documents."
        /\ RagResult.answer # "An error occurred while retrieving information."
        /\ task["rag"] # "failed"
        /\ Len(stream) >= 3 /\ RagResult.rawData = << >> =>
                /\ Invoked("aggregator") \/ (run = "Running" /\ active = {"aggregator"})
                /\ Invoked("aggregator") =>
                        Logged(<<"call", "sharedLLM", contextualPrompt(userQuery, ragResult, chartResult)>>)

(* the search failed, the listing returned nothing, and the synthesizer ran *)
C25_Witness ==
    /\ run = "Done"
    /\ Called("getter") /\ ~Logged(RagAgentError)
    /\ ragResult # Undefined
    /\ ragResult.answer = "I couldn't find any relevant information in the documents."
    /\ ragResult.rawData = << >>
    /\ Returned("aggregator")

(***************************************************************************)
(* C26: the payload list only grows: of two states emitted one after the   *)
(* other in a run, the payload list of the first is a prefix of that of    *)
(* the second; the router's step and the synthesizer's step emit the       *)
(* payload list they found.                                                *)
(***************************************************************************)
C26_PayloadAppendOnly ==
    /\ \A i \in 1..(Len(stream) - 1) :
            /\ Len(stream[i].allData) <= Len(stream[i + 1].allData)
            /\ SubSeq(stream[i + 1].allData, 1, Len(stream[i].allData)) = stream[i].allData
    /\ Len(stream) >= 1 => stream[1].allData = << >>
    /\ Len(stream) >= 2 => stream[2].allData = << >>
    /\ Returned("aggregator") /\ run = "Done" =>
            /\ Len(stream[Len(stream)].allData) = Len(stream[Len(stream) - 1].allData)
            /\ stream[Len(stream)].allData = stream[Len(stream) - 1].allData
    /\ run # "Aborted" =>
            /\ Len(stream[Len(stream)].allData) = Len(allData)
            /\ stream[Len(stream)].allData = allData

(* four emitted states: nothing, nothing, the two entries of the workers,
   and the same two entries after the synthesizer *)
C26_Witness ==
    /\ run = "Done"
    /\ Len(stream) = 4
    /\ Len(stream[2].allData) = 0
    /\ Len(stream[3].allData) = 2
    /\ Len(stream[4].allData) = 2
    /\ stream[4].finalAnswer # ""

(***************************************************************************)
(* C28: a non-empty final answer is written at most once in a run: once an *)
(* emitted state has a non-empty final answer, every later emitted state   *)
(* has the same one.  The workers never write it, the synthesizer is never *)
(* reached with a direct answer in the state, and the state with the       *)
(* answer is the last one emitted.                                         *)
(***************************************************************************)
C28_FinalAnswerWrittenOnce ==
    /\ \A i, j \in 1..Len(stream) :
            i < j /\ stream[i].finalAnswer # "" => stream[j].finalAnswer = stream[i].finalAnswer
    /\ \A i \in 1..Len(stream) :
            stream[i].finalAnswer # "" => i = Len(stream) /\ run = "Done"
    /\ "finalAnswer" \notin DOMAIN writes["chart"]
    /\ "finalAnswer" \notin DOMAIN writes["rag"]
    /\ Invoked("aggregator") => RouterDirectAnswer = ""
    /\ finalAnswer # "" => stream[Len(stream)].finalAnswer = finalAnswer

(* the synthesizer wrote the answer after both workers: it is in the last
   emitted state only *)
C28_Witness ==
    /\ run = "Done"
    /\ Len(stream) = 4
    /\ stream[3].finalAnswer = ""
    /\ stream[4].finalAnswer # ""
    /\ Len(stream[3].allData) = 2

(***************************************************************************)
(* The readiness checks of setupWeaviate.                                  *)
(***************************************************************************)
SomeCheckReady == \E i \in 1..Len(setup.checks) : setup.checks[i]

(* the while loop is over *)
ChecksOver == setup.pc # "check"

(***************************************************************************)
(* C27: setupWeaviate issues no schema or data operation unless one of its *)
(* readiness checks has reported ready; it makes a bounded number of       *)
(* checks (one more than it has retries), and when every one of them       *)
(* reported not ready it raises the not-responsive error, with no          *)
(* operation issued.                                                       *)
(***************************************************************************)
C27_NoOperationBeforeReady ==
    /\ setup.ops # << >> => SomeCheckReady
    /\ setup.pc \in DOMAIN OperationAt \cup {"done"} => SomeCheckReady
    /\ Len(setup.checks) <= 6
    /\ ~ChecksOver => setup.ops = << >>
    /\ ChecksOver /\ ~SomeCheckReady =>
            /\ Len(setup.checks) = 6
            /\ setup.pc = "thrown"
            /\ setup.error = "Weaviate service not responsive after multiple retries."
            /\ setup.ops = << >>

(* ready at the third check: the setup ran to its end, the five records inserted *)
C27_Witness ==
    /\ setup.pc = "done"
    /\ setup.checks = << FALSE, FALSE, TRUE >>
    /\ setup.inserted = 5
    /\ setup.ops[1] = "schema.getter"
    /\ setup.ops[2] = "schema.classDeleter"

(***************************************************************************)
(* C29: when a readiness check of setupWeaviate reports ready, the last    *)
(* one after the final delay included, setupWeaviate goes on to the schema *)
(* operations and does not raise the not-responsive error.                 *)
(***************************************************************************)
C29_ReadyCheckProceeds ==
    ChecksOver /\ SomeCheckReady =>
        /\ setup.error # "Weaviate service not responsive after multiple retries."
        /\ setup.pc \in DOMAIN OperationAt \/ setup.ops # << >>

====
